---- MODULE Spec2Model ----
(***************************************************************************)
(* Sauron: the audio segmentation pipeline.                                *)
(*                                                                         *)
(*   src/src/audio.py   AudioChunker: _frames (capture process and frame   *)
(*                      source), run (the segmentation engine, a generator *)
(*                      that yields one path per written segment)          *)
(*   src/src/main.py    audio_producer (drives run() and puts every path   *)
(*                      on audio_q), consumer (gets from audio_q), main    *)
(*                      (creates audio_q with maxsize 8)                   *)
(*                                                                         *)
(* A frame is identified by its position in the stream (1, 2, ...).  Time  *)
(* is counted in ticks: milliseconds in the scripted scenario, an abstract *)
(* unit in the bounded specifications.  run() is a generator: it is        *)
(* suspended at each yield until audio_producer has put the path on        *)
(* audio_q and asks for the next one, so one frame of the loop body is     *)
(* modelled in the pieces between its yields.                              *)
(***************************************************************************)
EXTENDS Integers, Sequences, FiniteSets, TLC

VARIABLES
    self,                \* the AudioChunker's attributes, fixed by __init__
    maxsize,             \* main(): audio_q's maxsize
    silence_threshold,   \* run(): local, set once at line 86
    active_recording,    \* run(): list of frames
    silence_buffer,      \* run(): deque(maxlen=...) of frames
    last_emit,           \* run(): timers
    last_speech_time,
    last_stream_emit,
    triggered,           \* run(): not enable_wake_word
    is_recording_speech,
    is_speech,           \* run(): classifier decision for the current frame
    now,                 \* run(): time.time() read for the current frame
    pc,                  \* where run() stands
    out,                 \* the segment run() is yielding, or NoSeg
    proc,                \* the arecord process
    proc_calls,          \* methods _frames() has called on it, in order
    n,                   \* frames yielded by _frames() so far
    data,                \* _frames(): len(data) of the frame yielded last
    audio_q,             \* main(): queue.Queue(maxsize=8)
    emitted,             \* history: every segment run() has yielded
    consumed,            \* history: every segment the consumer has dequeued
    is_addressed,        \* consumer(): locals, "unbound" until assigned
    is_question,
    sms_sent,            \* ids of the segments an SMS reply was sent for
    asked,               \* history: ids of the final segments dequeued with
                         \*          a transcript that calls for a reply
    pre_at_trigger,      \* history: len(silence_buffer) when recording started
    speech_in_rec,       \* history: speech frames since recording started
    partials_in_rec,     \* history: stream segments since recording started
    run_start,           \* history: time of the first frame of the speech run
    max_run,             \* history: longest speech run of the recording
    all_speech,          \* history: every frame so far was classified speech
    speech,              \* history: frames classified speech, from the
                         \*          frame that started the recording on
    spoken,              \* history: all frames classified speech
    quiet,               \* history: a final was emitted, no speech since
    exit_path            \* history: how the frame loop was left

vars == <<self, maxsize, silence_threshold, active_recording, silence_buffer,
          last_emit, last_speech_time, last_stream_emit, triggered,
          is_recording_speech, is_speech, now, pc, out, proc, proc_calls, n,
          data, audio_q, emitted, consumed, is_addressed, is_question,
          sms_sent, asked, pre_at_trigger, speech_in_rec,
          partials_in_rec, run_start, max_run, all_speech, speech, spoken,
          quiet, exit_path>>

engine == <<active_recording, silence_buffer, last_emit, last_speech_time,
            last_stream_emit, is_recording_speech>>

config == <<self, maxsize, silence_threshold, triggered>>

replies == <<is_addressed, is_question, sms_sent, asked>>

history == <<pre_at_trigger, speech_in_rec, partials_in_rec, run_start,
             max_run, all_speech, speech, spoken>>

(***************************************************************************)
(* Bounds of the model.  The bounded specifications scale the program's    *)
(* durations down to a few frames: PreRollCap stands for the deque's       *)
(* maxlen (1000 frames at the defaults), OverflowCap for the frames of     *)
(* 300 s (10000), SilenceTicks for silence_threshold (1.0 s), StreamTicks  *)
(* for streaming_chunk_seconds (3 s), QueueMax for audio_q's maxsize (8).  *)
(* The gap between two frames' clock readings is 0 (a frame read from the  *)
(* pipe's backlog), 1 (a frame period) or MaxDelta ticks (the loop was     *)
(* The scripted scenario uses the program's own values, in milliseconds.   *)
(***************************************************************************)
MaxFrames == 6

MaxDelta == 3

PreRollCap == 2

OverflowCap == 4

SilenceTicks == 2

StreamTicks == 2

QueueMax == 2

\* The specification of the segments' file names keeps the program's
\* proportions: a tick is one frame period, a second is TicksPerSecond
\* ticks (33 at the defaults), the overflow cap is PathCap frames.
TicksPerSecond == 2

PathCap == 2

MaxFramesPaths == 6

\* The specification of an engine whose overflow valve is out of reach
\* runs for more frames.
MaxFramesStreaming == 8

(***************************************************************************)
(* The program's constants and the values derived from them.               *)
(***************************************************************************)
frame_ms == 30

streaming_chunk_seconds == 3

silence_threshold_ms == 1000

overflow_seconds == 300

audio_q_maxsize == 8

audio_sample_rate == 16000

audio_chunk_seconds == 30

\* int(sample_rate * (frame_ms / 1000.0) * 2)
frame_bytes(sample_rate) == (sample_rate * frame_ms * 2) \div 1000

\* deque(maxlen=int((sample_rate * 2 * chunk_seconds) / frame_bytes))
deque_maxlen(sample_rate, chunk_seconds) ==
    (sample_rate * 2 * chunk_seconds) \div frame_bytes(sample_rate)

\* len(active_recording) > (sample_rate * 2 * 300) / frame_bytes: for an
\* integer length, exceeding the quotient is exceeding its integer part.
overflow_frames(sample_rate) ==
    (sample_rate * 2 * overflow_seconds) \div frame_bytes(sample_rate)

NoSeg == [id |-> 0, kind |-> "none", path |-> <<0, "none">>, frames |-> <<>>]

Yields == {"stream", "final", "long"}

Max(a, b) == IF a >= b THEN a ELSE b

RECURSIVE Count(_, _)
Count(s, k) ==
    IF s = <<>> THEN 0
    ELSE (IF Head(s).kind = k THEN 1 ELSE 0) + Count(Tail(s), k)

(***************************************************************************)
(* The engine's decisions, as run() computes them.                         *)
(***************************************************************************)
\* Variant: a deque without maxlen, nothing is evicted.
DequeAppendUnbounded(buf, f) == Append(buf, f)

\* Variant: a full buffer refuses the new frame and keeps the oldest.
DequeAppendNewestDropped(buf, f) ==
    IF Len(buf) >= self.maxlen THEN buf ELSE Append(buf, f)

\* deque.append under maxlen: a full deque drops its oldest element; a
\* deque of maxlen 0 stays empty.
DequeAppend(buf, f) ==
    IF self.maxlen = 0 THEN <<>>
    ELSE IF Len(buf) >= self.maxlen THEN Append(Tail(buf), f)
    ELSE Append(buf, f)

\* Variant: the newest pre-roll frame is left out.
SeedPreRollNewestDropped(ar, sb) ==
    ar \o (IF sb = <<>> THEN <<>> ELSE SubSeq(sb, 1, Len(sb) - 1))

\* line 99: active_recording.extend(list(silence_buffer))
SeedPreRoll(ar, sb) == ar \o sb

\* Variant: the trailing context is appended twice.
TrailingTwice(ar, sb) == ar \o sb \o sb

\* Variant: the trailing context is not appended.
TrailingDropped(ar, sb) == ar

\* line 128: active_recording.extend(list(silence_buffer))
Trailing(ar, sb) == ar \o sb

\* Variant: the interval itself does not count as elapsed.
StreamDueStrict(t, lse) ==
    self.enable_streaming /\ t - lse > self.streaming_chunk_seconds

\* Variant: the enable_streaming flag is read inverted.
StreamDueFlagInverted(t, lse) ==
    ~self.enable_streaming /\ t - lse >= self.streaming_chunk_seconds

\* line 109
StreamDue(t, lse) ==
    self.enable_streaming /\ t - lse >= self.streaming_chunk_seconds

\* Variant: the silence is measured from the wrong timer.
FinalDueFromLastEmit(rec, t, lst, ar) ==
    rec /\ t - last_emit >= silence_threshold /\ Len(ar) > 0

\* Variant: the threshold itself does not count as reached.
FinalDueStrict(rec, t, lst, ar) ==
    rec /\ t - lst > silence_threshold /\ Len(ar) > 0

\* line 126
FinalDue(rec, t, lst, ar) ==
    rec /\ t - lst >= silence_threshold /\ Len(ar) > 0

\* Variant: the valve opens one frame late.
OverflowDueLate(rec, ar) ==
    rec /\ Len(ar) > self.overflow_frames + 1

\* Variant: the valve never opens.
OverflowDueNever(rec, ar) == FALSE

\* line 144
OverflowDue(rec, ar) ==
    rec /\ Len(ar) > self.overflow_frames

\* Variant: the flag and the deque are reset, the list is not cleared.
ResetFinalListKept(ar, sb, rec) == <<ar, <<>>, FALSE>>

\* Variant: the recording is not reset after a final segment.
ResetFinalKept(ar, sb, rec) == <<ar, <<>>, rec>>

\* lines 137-139: active_recording, silence_buffer, is_recording_speech
ResetFinal(ar, sb, rec) == <<<<>>, <<>>, FALSE>>

\* Variant: the list is cleared after a streaming chunk.
AfterStreamCleared(ar, sb, rec) == <<<<>>, sb, rec>>

\* Variant: the recording flag is reset after a streaming chunk.
AfterStreamFlagReset(ar, sb, rec) == <<ar, sb, FALSE>>

\* lines 115-117: only last_stream_emit is assigned ("Keep recording -
\* don't clear active_recording")
AfterStream(ar, sb, rec) == <<ar, sb, rec>>

\* Variant: the split resets the list but not the flag.
ResetLongFlagKept(ar, sb, rec) == <<<<>>, sb, rec>>

\* Variant: the split leaves the frames in the list.
ResetLongKept(ar, sb, rec) == <<ar, sb, FALSE>>

\* lines 150-151
ResetLong(ar, sb, rec) == <<<<>>, sb, FALSE>>

\* Variant: put_nowait on a queue that does not bound itself.
CanPutAlways == TRUE

\* main.py line 238: q.put(wav_path) returns only once the queue has room
CanPut == Len(audio_q) < maxsize

\* Variant: every segment of a second gets the same name, no kind suffix.
PathNoSuffix(kind, t) == <<t \div self.ticks_per_second, "">>

\* lines 111-112, 131-132, 146-147: ts = int(now) and the file name
\* audio_{ts}_stream.wav, audio_{ts}.wav or audio_{ts}_long.wav.  t is
\* the Unix time in ticks.
Path(kind, t) == <<t \div self.ticks_per_second, kind>>

\* The segment written at the current frame: `now` counts from the start
\* of run(), self.epoch is the Unix time of that start.
Segment(kind, ar) ==
    [id |-> Len(emitted) + 1, kind |-> kind,
     path |-> Path(kind, self.epoch + now'), frames |-> ar]

SetEngine(ar, sb, rec, lst, lse, le) ==
    /\ active_recording' = ar
    /\ silence_buffer' = sb
    /\ is_recording_speech' = rec
    /\ last_speech_time' = lst
    /\ last_stream_emit' = lse
    /\ last_emit' = le

\* Variant: no kill after the wait times out.
CloseFramesNoKill(exited, intime) ==
    /\ proc' = IF exited \/ intime THEN "exited" ELSE proc
    /\ proc_calls' = proc_calls \o <<"terminate", "wait">>

\* _frames() lines 63-68: terminate, wait(timeout=1), kill on timeout.
\* exited: the process had already exited.  intime: it exits within the
\* second of the wait.
CloseFrames(exited, intime) ==
    IF exited \/ proc = "exited"
    THEN /\ proc' = "exited"
         /\ proc_calls' = proc_calls \o <<"terminate", "wait">>
    ELSE IF intime
    THEN /\ proc' = "exited"
         /\ proc_calls' = proc_calls \o <<"terminate", "wait">>
    ELSE /\ proc' = "killed"
         /\ proc_calls' = proc_calls \o <<"terminate", "wait", "kill">>

\* _write_wav succeeded: run() yields the path and is suspended there.
Yield(kind, ar) ==
    /\ pc' = kind
    /\ out' = Segment(kind, ar)
    /\ emitted' = Append(emitted, Segment(kind, ar))
    /\ UNCHANGED <<proc, proc_calls, exit_path>>

\* Variant: the exception is caught and logged in the loop, which goes on.
RaiseSwallowed(where) ==
    /\ pc' = "loop"
    /\ out' = NoSeg
    /\ exit_path' = where
    /\ UNCHANGED <<emitted, proc, proc_calls>>

\* An exception leaves run(): its frame is unwound, which drops the
\* _frames() generator it was iterating; closing that generator raises
\* GeneratorExit at its yield and runs the finally block.
Raise(where) ==
    /\ pc' = "raised"
    /\ out' = NoSeg
    /\ exit_path' = where
    /\ \E intime \in BOOLEAN : CloseFrames(FALSE, intime)
    /\ UNCHANGED emitted

\* The loop body is finished: back to the for statement.
LoopBack ==
    /\ pc' = "loop"
    /\ out' = NoSeg
    /\ UNCHANGED <<emitted, proc, proc_calls, exit_path>>

\* lines 143-149
OverflowStep(ar, sb, rec, lst, lse, le, wok) ==
    /\ SetEngine(ar, sb, rec, lst, lse, le)
    /\ IF OverflowDue(rec, ar)
       THEN IF wok THEN Yield("long", ar) ELSE Raise("write_long")
       ELSE LoopBack

\* lines 122-134, then on to the overflow check
FinalStep(t, ar, sb, rec, lst, lse, le, wok) ==
    IF FinalDue(rec, t, lst, ar)
    THEN /\ SetEngine(Trailing(ar, sb), sb, rec, lst, lse, le)
         /\ IF wok THEN Yield("final", Trailing(ar, sb))
            ELSE Raise("write_final")
    ELSE OverflowStep(ar, sb, rec, lst, lse, le, wok)

\* lines 108-113, then on to the finalization check
StreamStep(sp, t, ar, sb, rec, lst, lse, le, wok) ==
    IF sp /\ StreamDue(t, lse)
    THEN /\ SetEngine(ar, sb, rec, lst, lse, le)
         /\ IF wok THEN Yield("stream", ar) ELSE Raise("write_stream")
    ELSE FinalStep(t, ar, sb, rec, lst, lse, le, wok)

(***************************************************************************)
(* Actions.                                                                *)
(***************************************************************************)
\* run() is started: lines 79-87, then the first next() on _frames()
\* reaches Popen (line 55).  ok = FALSE: Popen raises (no arecord), before
\* the try block, so there is no process and no finally.
Start(ok) ==
    /\ pc = "start"
    /\ IF ok
       THEN /\ pc' = "loop"
            /\ proc' = "running"
            /\ UNCHANGED exit_path
       ELSE /\ pc' = "raised"
            /\ exit_path' = "popen"
            /\ UNCHANGED proc
    /\ UNCHANGED <<config, replies, engine, is_speech, now, out, proc_calls, n, data,
                   audio_q, emitted, consumed, history, quiet>>

\* The capture process has closed its output and the pipe holds fewer
\* bytes than a frame: read(frame_bytes) has returned them (a short,
\* non-empty data) and every later read returns b"".
AtEOF == 0 < data /\ data < self.frame_bytes

\* run() lines 90-107 on the frame _frames() has yielded, and on to the
\* first yield or the end of the loop body.  sp is the classifier's
\* decision, dt the time since the previous frame's time.time(), wok
\* whether a _write_wav reached in this piece succeeds.
Process(sp, dt, wok) ==
    /\ pc = "loop"
    /\ proc = "running"
    /\ n' = n + 1
    /\ now' = now + dt
    /\ is_speech' = sp
    /\ LET f == n + 1
           t == now + dt
           begin == sp /\ ~is_recording_speech
           ar0 == IF begin THEN SeedPreRoll(active_recording, silence_buffer)
                  ELSE active_recording
           ar1 == IF sp THEN Append(ar0, f) ELSE active_recording
           sb1 == IF sp THEN <<>> ELSE DequeAppend(silence_buffer, f)
           rec1 == is_recording_speech \/ sp
           lse1 == IF begin THEN t ELSE last_stream_emit
           lst1 == IF sp THEN t ELSE last_speech_time
           rs1 == IF begin \/ (sp /\ ~is_speech) THEN t ELSE run_start
       IN /\ StreamStep(sp, t, ar1, sb1, rec1, lst1, lse1, last_emit, wok)
          /\ pre_at_trigger' = IF begin THEN Len(silence_buffer)
                               ELSE pre_at_trigger
          /\ speech_in_rec' = IF begin THEN 1
                              ELSE IF sp THEN speech_in_rec + 1
                              ELSE speech_in_rec
          /\ partials_in_rec' = (IF begin THEN 0 ELSE partials_in_rec)
                                + (IF pc' = "stream" THEN 1 ELSE 0)
          /\ run_start' = rs1
          /\ max_run' = IF ~sp THEN max_run
                        ELSE Max(IF begin THEN 0 ELSE max_run, t - rs1)
    /\ all_speech' = (all_speech /\ sp)
    /\ speech' = IF sp /\ ~is_recording_speech THEN {n + 1}
                 ELSE IF sp THEN speech \cup {n + 1}
                 ELSE speech
    /\ spoken' = IF sp THEN spoken \cup {n + 1} ELSE spoken
    /\ quiet' = IF pc' = "final" THEN TRUE ELSE IF sp THEN FALSE ELSE quiet
    /\ UNCHANGED <<config, replies, audio_q, consumed>>

\* _frames() lines 59-62: read(frame_bytes) returns a whole frame, which
\* is yielded to run().
Frame(sp, dt, wok) ==
    /\ ~AtEOF
    /\ data' = self.frame_bytes
    /\ Process(sp, dt, wok)

\* _frames() lines 59-62 at the end of the stream: the pipe was closed
\* with len bytes left, 0 < len < frame_bytes; read returns them, data is
\* not empty, and it is yielded to run() as a frame.  The classifier is
\* an external library: it returns a decision for it (here) or raises
\* (ClassifierError).
ShortFrame(len, sp, dt, wok) ==
    /\ ~AtEOF
    /\ 0 < len /\ len < self.frame_bytes
    /\ data' = len
    /\ Process(sp, dt, wok)

\* vad.is_speech raises on the frame (line 90), a whole one or a short one.
ClassifierError ==
    /\ pc = "loop"
    /\ proc = "running"
    /\ ~AtEOF
    /\ n' = n + 1
    /\ \E len \in {1, self.frame_bytes} : data' = len
    /\ Raise("classifier")
    /\ UNCHANGED <<config, replies, engine, is_speech, now, audio_q, consumed,
                   history, quiet>>

\* proc.stdout.read raises (line 59): the exception passes through the
\* finally block of _frames() and leaves run().
ReadError ==
    /\ pc = "loop"
    /\ proc = "running"
    /\ Raise("read")
    /\ UNCHANGED <<config, replies, engine, is_speech, now, n, data, audio_q, consumed,
                   history, quiet>>

\* audio_producer line 238 (q.put blocks while the queue is full) and the
\* next() that resumes run() after its yield: line 115, lines 137-140,
\* lines 150-152, and on to the next yield or the end of the loop body.
Put(wok) ==
    /\ pc \in Yields
    /\ CanPut
    /\ audio_q' = Append(audio_q, out)
    /\ UNCHANGED <<config, replies, is_speech, now, n, data, consumed, history>>
    /\ CASE pc = "stream" ->
              LET r == AfterStream(active_recording, silence_buffer,
                                   is_recording_speech)
              IN FinalStep(now, r[1], r[2], r[3], last_speech_time, now,
                           last_emit, wok)
         [] pc = "final" ->
              LET r == ResetFinal(active_recording, silence_buffer,
                                  is_recording_speech)
              IN OverflowStep(r[1], r[2], r[3], last_speech_time,
                              last_stream_emit, now, wok)
         [] pc = "long" ->
              LET r == ResetLong(active_recording, silence_buffer,
                                 is_recording_speech)
              IN /\ SetEngine(r[1], r[2], r[3], last_speech_time,
                              last_stream_emit, now)
                 /\ LoopBack
    /\ quiet' = IF pc' = "final" THEN TRUE ELSE quiet

\* config.py line 105: SEND_SMS_ON_QUESTIONS defaults to True
send_sms_on_questions == TRUE

\* What transcribe() returns for a segment, as far as consumer() looks at
\* it: the number of words of the text (0: empty text, or transcribe
\* raised and text = ""), the number of distinct words, whether the text
\* contains a trigger word, whether it contains a question marker.
NoText == [words |-> 0, distinct |-> 0, trigger |-> FALSE, question |-> FALSE]

Transcripts ==
    {NoText,
     [words |-> 2, distinct |-> 2, trigger |-> TRUE, question |-> TRUE],
     [words |-> 4, distinct |-> 1, trigger |-> TRUE, question |-> TRUE],
     [words |-> 4, distinct |-> 4, trigger |-> FALSE, question |-> TRUE],
     [words |-> 4, distinct |-> 4, trigger |-> TRUE, question |-> FALSE],
     [words |-> 4, distinct |-> 4, trigger |-> TRUE, question |-> TRUE]}

\* One iteration of consumer()'s loop for a dequeued segment (lines 283,
\* 336-427, 598-622).  Lines 359-360: a streaming chunk is only remembered.
\* Lines 380-385: a short or repetitive text is skipped.  The assignments
\* of is_addressed and is_question (lines 388-414) are indented into the
\* body of the if of line 383, after its continue, and are never reached:
\* line 420 reads is_addressed unbound and raises UnboundLocalError, which
\* the except of line 620 logs.  llm_ok and sms_ok: the reply is produced
\* and send_sms succeeds.
Consume(tr, llm_ok, sms_ok) ==
    /\ audio_q # <<>>
    /\ audio_q' = Tail(audio_q)
    /\ consumed' = Append(consumed, Head(audio_q))
    /\ LET seg == Head(audio_q)
           is_streaming_chunk == seg.kind = "stream"
           text == tr.words > 0
           skipped == tr.words < 3 \/ 2 * tr.distinct < tr.words
           line420 == text /\ ~is_streaming_chunk /\ ~skipped
           unbound == is_addressed = "unbound"
           sms_to_send == /\ line420
                          /\ ~unbound
                          /\ is_addressed = "true"
                          /\ is_question = "true"
                          /\ send_sms_on_questions
                          /\ llm_ok
       IN /\ sms_sent' = IF sms_to_send /\ sms_ok
                         THEN sms_sent \cup {seg.id}
                         ELSE sms_sent
          /\ asked' = IF /\ seg.kind = "final"
                         /\ tr.words >= 3
                         /\ ~(2 * tr.distinct < tr.words)
                         /\ tr.trigger
                         /\ tr.question
                         /\ send_sms_on_questions
                         /\ llm_ok
                         /\ sms_ok
                      THEN asked \cup {seg.id}
                      ELSE asked
    /\ UNCHANGED <<is_addressed, is_question>>
    /\ UNCHANGED <<config, engine, is_speech, now, pc, out, proc, proc_calls,
                   n, data, emitted, history, quiet, exit_path>>

\* consumer line 283: audio_q.get, for a segment whose transcript is empty.
Get == Consume(NoText, TRUE, TRUE)

\* Variant: the recording in progress is flushed as a last segment when
\* the stream ends.
EndOfStreamFlushed(exited, intime) ==
    /\ pc = "loop"
    /\ proc = "running"
    /\ pc' = "done"
    /\ exit_path' = "eos"
    /\ CloseFrames(exited, intime)
    /\ UNCHANGED <<config, replies, engine, is_speech, now, out, n, data,
                   audio_q, consumed, history, quiet>>
    /\ emitted' = IF is_recording_speech
                  THEN Append(emitted, Segment("final", active_recording))
                  ELSE emitted

\* _frames() lines 59-61: read returns no data and the loop breaks into
\* the finally block; run()'s for loop ends and run() returns.  The
\* process has exited on its own, or has only closed its output.
EndOfStream(exited, intime) ==
    /\ pc = "loop"
    /\ proc = "running"
    /\ pc' = "done"
    /\ exit_path' = "eos"
    /\ CloseFrames(exited, intime)
    /\ UNCHANGED <<config, replies, engine, is_speech, now, out, n, data, audio_q,
                   emitted, consumed, history, quiet>>

\* The caller drops run() while it is suspended at a yield: GeneratorExit
\* is raised there, nothing in run() catches it, _frames() is closed.
Abandon(intime) ==
    /\ pc \in Yields
    /\ pc' = "abandoned"
    /\ out' = NoSeg
    /\ exit_path' = "abandoned"
    /\ CloseFrames(FALSE, intime)
    /\ UNCHANGED <<config, replies, engine, is_speech, now, n, data, audio_q, emitted,
                   consumed, history, quiet>>

(***************************************************************************)
(* Specifications.                                                         *)
(***************************************************************************)
\* Variant: the gate starts closed whatever enable_wake_word says.
InitRunGated ==
    /\ active_recording = <<>>
    /\ silence_buffer = <<>>
    /\ last_emit = 0
    /\ last_speech_time = 0
    /\ last_stream_emit = 0
    /\ triggered = FALSE
    /\ is_recording_speech = FALSE
    /\ is_speech = FALSE
    /\ now = 0
    /\ pc = "start"
    /\ out = NoSeg
    /\ proc = "none"
    /\ proc_calls = <<>>
    /\ n = 0
    /\ data = 0
    /\ audio_q = <<>>
    /\ emitted = <<>>
    /\ consumed = <<>>
    /\ is_addressed = "unbound"
    /\ is_question = "unbound"
    /\ sms_sent = {}
    /\ asked = {}
    /\ pre_at_trigger = 0
    /\ speech_in_rec = 0
    /\ partials_in_rec = 0
    /\ run_start = 0
    /\ max_run = 0
    /\ all_speech = TRUE
    /\ speech = {}
    /\ spoken = {}
    /\ quiet = FALSE
    /\ exit_path = "none"

\* run() lines 79-87, before the first frame.
InitRun ==
    /\ active_recording = <<>>
    /\ silence_buffer = <<>>
    /\ last_emit = 0
    /\ last_speech_time = 0
    /\ last_stream_emit = 0
    /\ triggered = ~self.enable_wake_word
    /\ is_recording_speech = FALSE
    /\ is_speech = FALSE
    /\ now = 0
    /\ pc = "start"
    /\ out = NoSeg
    /\ proc = "none"
    /\ proc_calls = <<>>
    /\ n = 0
    /\ data = 0
    /\ audio_q = <<>>
    /\ emitted = <<>>
    /\ consumed = <<>>
    /\ is_addressed = "unbound"
    /\ is_question = "unbound"
    /\ sms_sent = {}
    /\ asked = {}
    /\ pre_at_trigger = 0
    /\ speech_in_rec = 0
    /\ partials_in_rec = 0
    /\ run_start = 0
    /\ max_run = 0
    /\ all_speech = TRUE
    /\ speech = {}
    /\ spoken = {}
    /\ quiet = FALSE
    /\ exit_path = "none"

\* The engine as audio_producer builds it (enable_wake_word is left at its
\* default, False), with the durations scaled to a few frames.
Init ==
    /\ \E st \in BOOLEAN :
          self = [maxlen |-> PreRollCap,
                  overflow_frames |-> OverflowCap,
                  streaming_chunk_seconds |-> StreamTicks,
                  enable_streaming |-> st,
                  enable_wake_word |-> FALSE,
                  chunk_seconds |-> PreRollCap,
                  frame_bytes |-> frame_bytes(audio_sample_rate),
                  ticks_per_second |-> SilenceTicks,
                  epoch |-> 0]
    /\ maxsize = QueueMax
    /\ silence_threshold = SilenceTicks
    /\ InitRun

Gaps == {0, 1, MaxDelta}

BoundedFrame(sp, dt, wok) == n < MaxFrames /\ Frame(sp, dt, wok)

BoundedClassifierError == n < MaxFrames /\ ClassifierError

\* The bytes left in the pipe when it is closed inside a frame: one byte,
\* or one byte less than a frame.
ShortLens == {1, frame_bytes(audio_sample_rate) - 1}

BoundedShortFrame(len, sp, dt, wok) ==
    n < MaxFrames /\ ShortFrame(len, sp, dt, wok)

Next ==
    \/ \E ok \in BOOLEAN : Start(ok)
    \/ \E sp \in BOOLEAN, dt \in Gaps, wok \in BOOLEAN :
          BoundedFrame(sp, dt, wok)
    \/ BoundedClassifierError
    \/ \E len \in ShortLens, sp \in BOOLEAN, dt \in Gaps, wok \in BOOLEAN :
          BoundedShortFrame(len, sp, dt, wok)
    \/ ReadError
    \/ \E wok \in BOOLEAN : Put(wok)
    \/ Get
    \/ \E exited \in BOOLEAN, intime \in BOOLEAN : EndOfStream(exited, intime)

\* The program: audio_producer drives run() and never drops it.
Spec == Init /\ [][Next]_vars

\* run() under any caller: one that may also drop the generator at a yield.
NextAnyCaller ==
    \/ Next
    \/ \E intime \in BOOLEAN : Abandon(intime)

SpecAnyCaller == Init /\ [][NextAnyCaller]_vars

\* An AudioChunker constructed with enable_wake_word=True (its constructor
\* takes the flag and config.py reads ENABLE_WAKE_WORD, though
\* audio_producer does not pass it on).
InitGated ==
    /\ \E st \in BOOLEAN :
          self = [maxlen |-> PreRollCap,
                  overflow_frames |-> OverflowCap,
                  streaming_chunk_seconds |-> StreamTicks,
                  enable_streaming |-> st,
                  enable_wake_word |-> TRUE,
                  chunk_seconds |-> PreRollCap,
                  frame_bytes |-> frame_bytes(audio_sample_rate),
                  ticks_per_second |-> SilenceTicks,
                  epoch |-> 0]
    /\ maxsize = QueueMax
    /\ silence_threshold = SilenceTicks
    /\ InitRun

SpecGated == InitGated /\ [][Next]_vars

\* The pipeline up to the consumer's reply: the writes succeed, and the
\* consumer gets any transcript for a dequeued segment.
NextConsumer ==
    \/ Start(TRUE)
    \/ \E sp \in BOOLEAN, dt \in Gaps : BoundedFrame(sp, dt, TRUE)
    \/ Put(TRUE)
    \/ \E tr \in Transcripts, llm_ok \in BOOLEAN, sms_ok \in BOOLEAN :
          Consume(tr, llm_ok, sms_ok)

SpecConsumer == Init /\ [][NextConsumer]_vars

\* The engine on the capture device's clock: run() starts at any point of
\* a second, silence_threshold is 1.0 s, streaming_chunk_seconds 3 s, and
\* a frame is read one frame period after the one before it, or later
\* (the loop was held up for a second, or for a streaming interval).
InitPaths ==
    /\ \E ph \in 0..(TicksPerSecond - 1) :
          self = [maxlen |-> PreRollCap,
                  overflow_frames |-> PathCap,
                  streaming_chunk_seconds |->
                      streaming_chunk_seconds * TicksPerSecond,
                  enable_streaming |-> TRUE,
                  enable_wake_word |-> FALSE,
                  chunk_seconds |-> PreRollCap,
                  frame_bytes |-> frame_bytes(audio_sample_rate),
                  ticks_per_second |-> TicksPerSecond,
                  epoch |-> ph]
    /\ maxsize = QueueMax
    /\ silence_threshold = TicksPerSecond
    /\ InitRun

PathsFrame(sp, dt) == n < MaxFramesPaths /\ Frame(sp, dt, TRUE)

NextPaths ==
    \/ Start(TRUE)
    \/ \E sp \in BOOLEAN,
          dt \in {1, TicksPerSecond, streaming_chunk_seconds * TicksPerSecond} :
          PathsFrame(sp, dt)
    \/ Put(TRUE)
    \/ Get

SpecPaths == InitPaths /\ [][NextPaths]_vars

\* The engine with streaming enabled and the overflow valve out of reach
\* of the frames read, so that a long speech run stays in one recording.
InitStreaming ==
    /\ self = [maxlen |-> PreRollCap,
               overflow_frames |-> MaxFramesStreaming,
               streaming_chunk_seconds |-> StreamTicks,
               enable_streaming |-> TRUE,
               enable_wake_word |-> FALSE,
               chunk_seconds |-> PreRollCap,
               frame_bytes |-> frame_bytes(audio_sample_rate),
               ticks_per_second |-> SilenceTicks,
               epoch |-> 0]
    /\ maxsize = QueueMax
    /\ silence_threshold = SilenceTicks
    /\ InitRun

StreamingFrame(sp, dt) == n < MaxFramesStreaming /\ Frame(sp, dt, TRUE)

NextStreaming ==
    \/ Start(TRUE)
    \/ \E sp \in BOOLEAN, dt \in {1, MaxDelta} : StreamingFrame(sp, dt)
    \/ Put(TRUE)
    \/ Get

SpecStreaming == InitStreaming /\ [][NextStreaming]_vars

\* The scenario of the specification's section 8, with the program's
\* values: 16000 Hz, 30 ms frames 30 ms apart, chunk_seconds 30, a silence
\* threshold of 1.0 s, 40 speech frames and then 34 silence frames.
ScenarioFlags == [i \in 1..74 |-> i <= 40]

InitScenario ==
    /\ \E st \in BOOLEAN :
          self = [maxlen |-> deque_maxlen(audio_sample_rate,
                                          audio_chunk_seconds),
                  overflow_frames |-> overflow_frames(audio_sample_rate),
                  streaming_chunk_seconds |-> streaming_chunk_seconds * 1000,
                  enable_streaming |-> st,
                  enable_wake_word |-> FALSE,
                  chunk_seconds |-> audio_chunk_seconds * 1000,
                  frame_bytes |-> frame_bytes(audio_sample_rate),
                  ticks_per_second |-> 1000,
                  epoch |-> 0]
    /\ maxsize = audio_q_maxsize
    /\ silence_threshold = silence_threshold_ms
    /\ InitRun

ScenarioFrame ==
    /\ n < Len(ScenarioFlags)
    /\ Frame(ScenarioFlags[n + 1], frame_ms, TRUE)

NextScenario ==
    \/ Start(TRUE)
    \/ ScenarioFrame
    \/ Put(TRUE)
    \/ Get

SpecScenario == InitScenario /\ [][NextScenario]_vars

(***************************************************************************)
(* Properties.                                                             *)
(***************************************************************************)
Pending == IF pc \in Yields THEN <<out>> ELSE <<>>

Ended == pc \in {"done", "raised", "abandoned"}

\* C1: the PreRoll Buffer never holds more frames than its capacity, and
\* it holds the newest frames: whenever it is not empty it is the run of
\* consecutive frames ending at the frame just processed, so a frame
\* appended to a full buffer has pushed out the oldest one.
C1_PreRollRing ==
    /\ Len(silence_buffer) <= self.maxlen
    /\ (silence_buffer # <<>> /\ exit_path # "classifier") =>
          \A i \in 1..Len(silence_buffer) :
              silence_buffer[i] = n - Len(silence_buffer) + i

\* C1 witness: the buffer is full and frame 1 has been evicted from it.
C1_Evicted ==
    /\ self.maxlen > 0
    /\ Len(silence_buffer) = self.maxlen
    /\ n = self.maxlen + 1
    /\ Head(silence_buffer) = 2

\* C2 as stated: Active Recording never holds more than the overflow cap
\* plus one frame, at any point of a run.
C2_CapPlusOne ==
    Len(active_recording) <= self.overflow_frames + 1

\* C2 amended: while a final segment is being written and yielded (the
\* trailing PreRoll contents have been appended) Active Recording holds at
\* most cap + PreRoll capacity frames; at every other point it holds at
\* most max(cap, PreRoll capacity) + 1 frames, and between two frames at
\* most cap.
C2_ActiveBound ==
    /\ (pc = "final" \/ exit_path = "write_final") =>
          Len(active_recording) <= self.overflow_frames + self.maxlen
    /\ ~(pc = "final" \/ exit_path = "write_final") =>
          Len(active_recording) <= Max(self.overflow_frames, self.maxlen) + 1
    /\ pc = "loop" => Len(active_recording) <= self.overflow_frames

\* C2 witness: a final segment is being yielded with cap + capacity frames.
C2_FinalAboveCap ==
    /\ pc = "final"
    /\ self.maxlen > 1
    /\ Len(active_recording) = self.overflow_frames + self.maxlen

\* C3: when every frame so far was speech and more frames than the
\* overflow cap have been processed, an overflow-split segment has been
\* emitted and no final segment has.
C3_OverflowSplitFirst ==
    (all_speech /\ n > self.overflow_frames /\ pc \in {"loop", "long"}) =>
        /\ Count(emitted, "long") >= 1
        /\ Count(emitted, "final") = 0

\* C3 witness: continuous speech has run past the cap and was split.
C3_SplitReached ==
    /\ all_speech
    /\ n > self.overflow_frames
    /\ pc = "loop"
    /\ Count(emitted, "long") = 1

\* C4: a final segment holds as many frames as the PreRoll Buffer held when
\* the recording was triggered, plus the frames classified speech from the
\* trigger on (the frames accumulated in Active Recording), plus the
\* frames the PreRoll Buffer holds at finalization.
C4_FinalCount ==
    pc = "final" =>
        Len(out.frames) = pre_at_trigger + speech_in_rec + Len(silence_buffer)

\* C4 witness: a final segment with all three parts present.
C4_FinalWithAllParts ==
    /\ pc = "final"
    /\ pre_at_trigger > 0
    /\ speech_in_rec > 1
    /\ Len(silence_buffer) > 1

\* C6: when run() is resumed after a final segment, Active Recording and
\* the PreRoll Buffer are empty and the engine is not recording; from the
\* final segment until the next speech frame nothing more is emitted and
\* the engine stays out of the recording state.
C6_SilenceIdempotent ==
    /\ []((quiet /\ pc = "loop") =>
            (~is_recording_speech /\ active_recording = <<>>))
    /\ [][(pc = "final" /\ pc' = "loop") =>
            (active_recording' = <<>> /\ silence_buffer' = <<>>
             /\ ~is_recording_speech')]_vars
    /\ [][(quiet /\ quiet') => (emitted' = emitted)]_vars

\* C6 witness: non-speech frames have been processed after a final segment.
C6_SilenceAfterFinal ==
    /\ quiet
    /\ pc = "loop"
    /\ Len(silence_buffer) >= 2
    /\ emitted[Len(emitted)].kind = "final"

\* C8: with wake-word gating disabled the engine is triggered from the
\* start on, and a first frame classified speech starts the recording at
\* that frame.
C8_NeverGated ==
    /\ ~self.enable_wake_word => triggered
    /\ (n = 1 /\ is_speech) =>
          is_recording_speech /\ active_recording = <<1>>

\* C8 witness: the first frame was speech and the engine records.
C8_FirstFrameRecords ==
    /\ ~self.enable_wake_word
    /\ n = 1
    /\ is_speech
    /\ is_recording_speech

\* C9: audio_q never holds more than maxsize segments; while run() waits
\* at a yield and the queue is full, no frame is processed and nothing is
\* emitted or lost; the segments dequeued, those queued and the one being
\* put are, in this order, exactly the segments emitted.
C9_OutputChannel ==
    /\ [](Len(audio_q) <= maxsize)
    /\ [](consumed \o audio_q \o Pending = emitted)
    /\ [][(pc \in Yields /\ Len(audio_q) >= maxsize) =>
            (pc' = pc /\ out' = out /\ n' = n /\ emitted' = emitted)]_vars

\* C9 witness: the producer is blocked on a full queue after the consumer
\* has dequeued a segment.
C9_Blocked ==
    /\ pc \in Yields
    /\ Len(audio_q) = maxsize
    /\ consumed # <<>>

\* C10: however the frame loop was left once the capture process existed
\* (end of stream, an exception in the loop body, the caller dropping the
\* generator), terminate and wait were called on the process, kill was
\* called exactly when the wait timed out, and the process is not alive.
C10_CaptureReleased ==
    (Ended /\ exit_path # "popen") =>
        /\ proc \in {"exited", "killed"}
        /\ SubSeq(proc_calls, 1, 2) = <<"terminate", "wait">>
        /\ (proc = "killed") = (proc_calls = <<"terminate", "wait", "kill">>)
        /\ exit_path \in {"eos", "abandoned", "classifier", "read",
                           "write_stream", "write_final", "write_long"}

\* C10 witness: the caller dropped the generator and the process, which
\* did not exit within the wait, was killed.
C10_KilledOnAbandon ==
    /\ pc = "abandoned"
    /\ proc = "killed"

\* C5: in the scripted scenario nothing is emitted before frame 74; frame
\* 74 emits a final segment holding frames 1..74 (40 speech frames, no
\* pre-roll at the trigger, 34 trailing silence frames); once run() is
\* resumed that is the only segment, the buffers are empty and the engine
\* is not recording.
C5_Scenario ==
    /\ n < 74 => emitted = <<>>
    /\ pc \in Yields =>
          /\ pc = "final"
          /\ n = 74
          /\ pre_at_trigger = 0
          /\ out.frames = [i \in 1..74 |-> i]
    /\ (n = 74 /\ pc = "loop") =>
          /\ emitted = <<[id |-> 1, kind |-> "final",
                          path |-> <<2, "final">>,
                          frames |-> [i \in 1..74 |-> i]]>>
          /\ ~is_recording_speech
          /\ active_recording = <<>>
          /\ silence_buffer = <<>>

\* C5 witness: the scenario has run to its end and the segment was emitted.
C5_ScenarioDone ==
    /\ n = 74
    /\ pc = "loop"
    /\ Len(emitted) = 1
    /\ consumed = emitted

C11_FixedSizeFrames ==
    n > 0 => data = self.frame_bytes

\* C13: in the step in which the classifier raises on a frame, the frame
\* is appended to the PreRoll Buffer like a silence frame and the engine
\* goes on to the next frame: the failure is not fatal.
C13_ClassifierFailOpen ==
    [][ClassifierError =>
         (pc' = "loop"
          /\ silence_buffer' = DequeAppend(silence_buffer, n + 1))]_vars

\* C14: when writing a segment fails, nothing is enqueued for it, the
\* engine goes on with the following frames, and after a failed final
\* segment both buffers are empty and the engine is not recording, as
\* after a successful one.
C14_WriteFailureAbsorbed ==
    /\ exit_path \in {"write_stream", "write_final", "write_long"} =>
          (pc # "raised" /\ consumed \o audio_q \o Pending = emitted)
    /\ exit_path = "write_final" =>
          (active_recording = <<>> /\ silence_buffer = <<>>
           /\ ~is_recording_speech)

\* C15: when the capture process cannot be started, or closes its output,
\* run() ends with an exception raised to audio_producer, not by
\* returning normally.
C15_DeviceErrorSignaled ==
    exit_path \in {"popen", "eos"} => pc = "raised"

\* C16: with wake-word gating enabled and the engine not triggered, no
\* frame is in Active Recording, the engine is not recording and no
\* segment has been emitted.
C16_GatedPreRollOnly ==
    (self.enable_wake_word /\ ~triggered) =>
        /\ active_recording = <<>>
        /\ ~is_recording_speech
        /\ emitted = <<>>

\* C17: with wake-word gating enabled and the engine not triggered, once
\* a frame has been processed chunk_seconds or more after the start of
\* run(), a wake-word-probe segment has been emitted.
C17_ProbeEveryChunk ==
    (self.enable_wake_word /\ ~triggered /\ pc = "loop" /\ n > 0
     /\ now >= self.chunk_seconds) =>
        Count(emitted, "probe") >= 1

\* C12: when the classifier raises on a frame or the read of a frame
\* raises, run() ends with the exception and nothing is yielded; in that
\* step no segment is emitted and neither buffer changes; from then on no
\* frame is processed, no segment is emitted, and the capture process is
\* not started again.
C12_FatalStreamError ==
    /\ [](exit_path \in {"classifier", "read"} =>
            (pc = "raised" /\ out = NoSeg /\ proc # "running"))
    /\ [][(exit_path' \in {"classifier", "read"}) =>
            (emitted' = emitted /\ UNCHANGED engine)]_vars
    /\ [][(exit_path \in {"classifier", "read"}) =>
            (pc' = pc /\ n' = n /\ exit_path' = exit_path
             /\ UNCHANGED <<proc, proc_calls>>)]_vars

\* C12 witness: the classifier raised in the middle of a recording, after
\* a segment had been emitted, and the consumer has drained the queue.
C12_RaisedInRecording ==
    /\ exit_path = "classifier"
    /\ is_recording_speech
    /\ consumed = emitted
    /\ emitted # <<>>

\* C18: between two frames (and before the first, and after the last), an
\* engine that is not recording has an empty Active Recording; it is empty
\* when run() is resumed after a final or an overflow-split segment.
C18_IdleMeansEmpty ==
    /\ []((pc \in {"start", "loop", "done"} /\ ~is_recording_speech) =>
            active_recording = <<>>)
    /\ [](pc = "start" => active_recording = <<>>)
    /\ [][(pc \in {"final", "long"} /\ pc' = "loop") =>
            (active_recording' = <<>> /\ ~is_recording_speech')]_vars

\* C18 witness: run() was resumed after an overflow-split segment and a
\* non-speech frame has been processed since.
C18_IdleAfterSplit ==
    /\ pc = "loop"
    /\ ~is_recording_speech
    /\ ~is_speech
    /\ emitted # <<>>
    /\ emitted[Len(emitted)].kind = "long"

\* C19 as stated: the frames of every emitted segment are consecutive
\* frames of the input stream.
C19_Contiguous ==
    \A k \in 1..Len(emitted) :
        \A i \in 1..(Len(emitted[k].frames) - 1) :
            emitted[k].frames[i + 1] = emitted[k].frames[i] + 1

\* C19 amended: the frames of a segment are in arrival order, without
\* repetition; every frame classified speech between its first and its
\* last frame is in it (a frame missing from the span is a non-speech
\* frame); the pre-roll frames up to the frame that started the recording
\* are consecutive, and so are the trailing frames after the last speech
\* frame, which end at the frame just processed.
C19_SpeechSpanKept ==
    pc \in Yields =>
        LET seg == out.frames
            first == CHOOSE f \in speech : \A g \in speech : f <= g
            last == CHOOSE f \in speech : \A g \in speech : g <= f
        IN /\ seg # <<>>
           /\ speech # {}
           /\ seg[Len(seg)] = n
           /\ \A i \in 1..(Len(seg) - 1) :
                 /\ seg[i] < seg[i + 1]
                 /\ \A g \in (seg[i] + 1)..(seg[i + 1] - 1) : g \notin speech
                 /\ seg[i + 1] <= first => seg[i + 1] = seg[i] + 1
                 /\ seg[i] > last => seg[i + 1] = seg[i] + 1

\* C19 witness: a final segment with pre-roll, with a pause dropped from
\* its middle and with trailing frames.
C19_PauseDropped ==
    /\ pc = "final"
    /\ pre_at_trigger > 0
    /\ silence_buffer # <<>>
    /\ \E i \in 1..(Len(out.frames) - 1) :
          /\ out.frames[i + 1] > out.frames[i] + 1
          /\ out.frames[i + 1] \in speech

\* C20: a final segment is being emitted only at a frame where the engine
\* is recording, Active Recording (before the trailing context) is not
\* empty and the time since the last speech frame is at least
\* silence_threshold; at every frame processed without a final segment
\* that condition is false; the recording is ended only by a final or an
\* overflow-split segment, so a speech frame after a shorter pause
\* continues it; when run() is resumed after the final segment both
\* buffers are empty and the engine is not recording.
C20_FinalizeRule ==
    /\ [](pc = "final" =>
            (is_recording_speech
             /\ now - last_speech_time >= silence_threshold
             /\ Len(active_recording) - Len(silence_buffer) > 0))
    /\ []((pc \in {"loop", "long"} /\ n > 0) =>
            ~(is_recording_speech
              /\ now - last_speech_time >= silence_threshold
              /\ Len(active_recording) > 0))
    /\ [][(is_recording_speech /\ ~is_recording_speech') =>
            pc \in {"final", "long"}]_vars
    /\ [][(pc = "loop" /\ is_recording_speech /\ n' = n + 1 /\ is_speech'
           /\ pc' # "raised") =>
            (is_recording_speech'
             /\ active_recording' = Append(active_recording, n'))]_vars
    /\ [][(pc = "final" /\ pc' # "final" /\ pc' # "raised") =>
            (active_recording' = <<>> /\ silence_buffer' = <<>>
             /\ ~is_recording_speech' /\ last_emit' = now)]_vars

\* C20 witness: a final segment is emitted exactly at the threshold, for a
\* recording that went through a shorter pause.
C20_FinalAtThreshold ==
    /\ pc = "final"
    /\ now - last_speech_time = silence_threshold
    /\ \E i \in 1..(Len(active_recording) - 1) :
          active_recording[i + 1] > active_recording[i] + 1

\* C21 as stated: at every frame processed while recording, a speech or
\* a non-speech one, a streaming-partial segment is emitted if and only
\* if streaming is enabled and the time since the last streaming emit (or
\* since the trigger) has reached streaming_chunk_seconds.
C21_StreamEveryFrame ==
    /\ pc = "stream" =>
          (self.enable_streaming /\ is_recording_speech
           /\ now - last_stream_emit >= self.streaming_chunk_seconds)
    /\ (pc = "loop" /\ n > 0 /\ is_recording_speech) =>
          ~(self.enable_streaming
            /\ now - last_stream_emit >= self.streaming_chunk_seconds)
    /\ ~self.enable_streaming => Count(emitted, "stream") = 0

\* C21 amended: the same at every frame classified speech (which the
\* engine processes recording); a frame classified non-speech never
\* emits a streaming-partial segment, however long ago the last one was;
\* with streaming disabled none is ever emitted.
C21_StreamOnSpeech ==
    /\ [](pc = "stream" =>
            (self.enable_streaming /\ is_speech /\ is_recording_speech
             /\ now - last_stream_emit >= self.streaming_chunk_seconds))
    /\ []((pc \in {"loop", "final", "long"} /\ n > 0 /\ is_speech) =>
            ~(self.enable_streaming
              /\ now - last_stream_emit >= self.streaming_chunk_seconds))
    /\ [][(n' = n + 1 /\ ~is_speech') => pc' # "stream"]_vars
    /\ [](~self.enable_streaming => Count(emitted, "stream") = 0)

\* C21 witness: the second streaming-partial segment of a run is being
\* emitted.
C21_SecondPartial ==
    /\ pc = "stream"
    /\ Len(emitted) >= 2
    /\ emitted[1].kind = "stream"

\* C22: the streaming-partial segment holds Active Recording as it is;
\* when run() is resumed after it, Active Recording, the PreRoll Buffer,
\* the recording flag, last_speech_time and last_emit are as they were
\* and last_stream_emit is the time of the frame.
C22_StreamKeepsState ==
    /\ [](pc = "stream" => out.frames = active_recording)
    /\ [][(pc = "stream" /\ pc' # "stream") =>
            (/\ active_recording' = active_recording
             /\ silence_buffer' = silence_buffer
             /\ is_recording_speech' = is_recording_speech
             /\ last_speech_time' = last_speech_time
             /\ last_emit' = last_emit
             /\ last_stream_emit' = now)]_vars

\* C22 witness: run() was resumed after a streaming-partial segment and
\* stands before the next frame, still recording.
C22_ResumedAfterPartial ==
    /\ pc = "loop"
    /\ is_recording_speech
    /\ last_stream_emit = now
    /\ Len(active_recording) >= 2
    /\ emitted # <<>>
    /\ emitted[Len(emitted)].kind = "stream"
    /\ emitted[Len(emitted)].frames = active_recording

\* C23: an overflow-split segment is emitted at the frame that takes
\* Active Recording over the cap (between frames it never exceeds the
\* cap) and holds it whole; when run() is resumed Active Recording is
\* empty and the recording flag reset, the PreRoll Buffer untouched; a
\* speech frame processed while not recording starts a recording through
\* the start step: pre-roll, then the frame, the streaming timer reset.
C23_OverflowSplit ==
    /\ [](pc = "long" =>
            (is_recording_speech
             /\ Len(active_recording) > self.overflow_frames
             /\ out.frames = active_recording
             /\ active_recording[Len(active_recording)] = n))
    /\ []((pc = "loop" /\ is_recording_speech) =>
            Len(active_recording) <= self.overflow_frames)
    /\ [][(pc = "long" /\ pc' # "long") =>
            (pc' = "loop" /\ active_recording' = <<>>
             /\ ~is_recording_speech'
             /\ silence_buffer' = silence_buffer /\ last_emit' = now)]_vars
    /\ [][(pc = "loop" /\ ~is_recording_speech /\ n' = n + 1
           /\ is_speech' /\ pc' # "raised") =>
            (is_recording_speech'
             /\ active_recording' = Append(silence_buffer, n')
             /\ last_stream_emit' = now')]_vars

\* C23 witness: the frame after an overflow split was speech and started
\* a new recording.
C23_RetriggeredAfterSplit ==
    /\ pc = "loop"
    /\ emitted # <<>>
    /\ emitted[Len(emitted)].kind = "long"
    /\ is_recording_speech
    /\ active_recording = <<n>>
    /\ emitted[Len(emitted)].frames[Len(emitted[Len(emitted)].frames)] = n - 1

\* C24: a frame classified non-speech becomes the newest element of the
\* PreRoll Buffer, whose oldest element is dropped when it was full;
\* Active Recording is unchanged by it unless the frame finalizes the
\* recording, and then it is extended by the PreRoll Buffer's contents.
C24_SilenceFrame ==
    [][(n' = n + 1 /\ ~is_speech' /\ pc' # "raised") =>
         (/\ silence_buffer' =
                 IF self.maxlen = 0 THEN <<>>
                 ELSE IF Len(silence_buffer) < self.maxlen
                 THEN Append(silence_buffer, n')
                 ELSE Append(Tail(silence_buffer), n')
          /\ active_recording' =
                 IF pc' = "final" THEN active_recording \o silence_buffer'
                 ELSE active_recording)]_vars

\* C24 witness: during a recording a non-speech frame has pushed the
\* oldest pause frame out of the full PreRoll Buffer.
C24_PauseEvicted ==
    /\ pc = "loop"
    /\ is_recording_speech
    /\ ~is_speech
    /\ self.maxlen > 0
    /\ Len(silence_buffer) = self.maxlen
    /\ Head(silence_buffer) > active_recording[Len(active_recording)] + 1

\* C25: once the frames processed end with non-speech frames reaching
\* silence_threshold after the last speech frame, every frame classified
\* speech so far is in exactly one final or overflow-split segment.
C25_SpeechInOneTerminal ==
    (pc \in {"loop", "final", "done"} /\ n > 0 /\ ~is_speech
     /\ now - last_speech_time >= silence_threshold) =>
        \A f \in spoken :
            Cardinality({k \in 1..Len(emitted) :
                            /\ emitted[k].kind \in {"final", "long"}
                            /\ \E i \in 1..Len(emitted[k].frames) :
                                  emitted[k].frames[i] = f}) = 1

\* C25 witness: two recordings have been closed, the speech frames are
\* spread over two final or overflow-split segments, and the silence has
\* reached the threshold.
C25_TwoTerminals ==
    /\ pc = "loop"
    /\ ~is_speech
    /\ now - last_speech_time >= silence_threshold
    /\ Count(emitted, "long") + Count(emitted, "final") = 2
    /\ Cardinality(spoken) >= 3

C27_PartialIsPrefix ==
    \A k \in 1..Len(emitted) : \A l \in (k + 1)..Len(emitted) :
        (/\ emitted[k].kind = "stream"
         /\ \A j \in k..(l - 1) : emitted[j].kind = "stream") =>
            /\ Len(emitted[k].frames) <= Len(emitted[l].frames)
            /\ SubSeq(emitted[l].frames, 1, Len(emitted[k].frames)) =
                  emitted[k].frames

\* C27 witness: a recording with two partials is closed by a final
\* segment.
C27_TwoPartialsThenFinal ==
    /\ Len(emitted) >= 3
    /\ emitted[1].kind = "stream"
    /\ emitted[2].kind = "stream"
    /\ emitted[3].kind = "final"

\* C28: when the frame stream ends, run() returns without emitting
\* anything, whatever Active Recording holds, and nothing is emitted
\* afterwards.
C28_NoFlushAtEnd ==
    /\ [][(pc' = "done") =>
            (emitted' = emitted /\ out' = NoSeg /\ UNCHANGED engine)]_vars
    /\ [](pc = "done" => (exit_path = "eos" /\ out = NoSeg))

\* C28 witness: the stream ended in the middle of a recording whose
\* frames are in no final or overflow-split segment.
C28_EndedWhileRecording ==
    /\ pc = "done"
    /\ is_recording_speech
    /\ Len(active_recording) >= 2
    /\ Count(emitted, "final") = 0
    /\ Count(emitted, "long") = 0

\* C30: an SMS reply has been sent for every final segment the consumer
\* dequeued with a transcript of at least 3 words, not mostly repeated
\* words, with a trigger word and a question marker, while
\* send_sms_on_questions is set and the transcription, LLM and SMS calls
\* succeed; none has been sent for a streaming-partial segment.
C30_SmsReply ==
    /\ asked \subseteq sms_sent
    /\ \A k \in 1..Len(consumed) :
          consumed[k].kind = "stream" => consumed[k].id \notin sms_sent

\* C29: no two segments emitted in a run have the same file path (the
\* whole second of the emitting frame's time and the kind suffix), so the
\* file of a segment still queued or being put is not the file of any
\* later segment.
C29_UniquePaths ==
    /\ \A k \in 1..Len(emitted) : \A l \in (k + 1)..Len(emitted) :
          emitted[k].path # emitted[l].path
    /\ \A q \in 1..Len(audio_q) : \A l \in 1..Len(emitted) :
          emitted[l].id > audio_q[q].id =>
              emitted[l].path # audio_q[q].path

\* C29 witness: two segments of one kind were emitted in consecutive
\* seconds, and a streaming-partial and an overflow-split segment in the
\* same second.
C29_CloseEmissions ==
    /\ \E k \in 1..Len(emitted) : \E l \in (k + 1)..Len(emitted) :
          /\ emitted[k].kind = emitted[l].kind
          /\ emitted[l].path[1] = emitted[k].path[1] + 1
    /\ \E k \in 1..Len(emitted) : \E l \in (k + 1)..Len(emitted) :
          /\ emitted[k].kind # emitted[l].kind
          /\ emitted[l].path[1] = emitted[k].path[1]

====
